---------------------------- MODULE Spec2Model ----------------------------
(***************************************************************************)
(* Tic Tac Toe backend (backend/src/api/main.py): the board codec, the     *)
(* ttt_games table and the four request handlers, with requests served     *)
(* concurrently by worker threads, each on a connection of its own.        *)
(***************************************************************************)
EXTENDS Integers, Sequences, FiniteSets, TLC

(***************************************************************************)
(* Bounds of the model.                                                    *)
(***************************************************************************)
NumSaves == 2       \* POST /api/games requests of one run
NumFetches == 1     \* GET /api/games/latest requests of one run
MaxLen == 10        \* longest codec input
MaxMarks == 2       \* non-blank entries of a codec input that is not a well-formed 9-cell one

(***************************************************************************)
(* Program constants.                                                      *)
(***************************************************************************)
BoardLen == 9

None == "None"                  \* Python None, SQL NULL
Cells == {"X", "O", None}       \* Optional[Literal["X", "O"]]
Alphabet == {".", "X", "O"}
BadChars == {"?", "x"}
DbPath == "myapp.db"

Ok(v) == [ok |-> TRUE, val |-> v]
ValueError == [ok |-> FALSE, val |-> <<>>]

(***************************************************************************)
(* Board codec.                                                            *)
(***************************************************************************)
\* An encoding that keeps only the X cells.
EncodeCellOnlyX(v) == IF v = "X" THEN v ELSE "."

\* v if v in ("X", "O") else "."
EncodeCell(v) == IF v \in {"X", "O"} THEN v ELSE "."

_encode_board(board) ==
    IF Len(board) # BoardLen
    THEN ValueError
    ELSE Ok([i \in 1..Len(board) |-> EncodeCell(board[i])])

DecodeChar(ch) == IF ch = "." THEN None ELSE ch

\* A decoding that takes every unknown character for an empty cell.
DecodeBoardLenient(s) ==
    IF Len(s) # BoardLen
    THEN ValueError
    ELSE Ok([i \in 1..Len(s) |-> IF s[i] \in {"X", "O"} THEN s[i] ELSE None])

_decode_board(s) ==
    IF Len(s) # BoardLen
    THEN ValueError
    ELSE IF \E i \in 1..Len(s) : s[i] \notin Alphabet
         THEN ValueError
         ELSE Ok([i \in 1..Len(s) |-> DecodeChar(s[i])])

(***************************************************************************)
(* Request payloads, after the framework's validation of GameStateIn: it   *)
(* checks the cells, next_player, winner and the range of moves, and puts  *)
(* no constraint on the length of board.                                   *)
(***************************************************************************)
Opening == [board |-> <<"X", None, None, None, "O", None, None, None, None>>,
            next_player |-> "O", winner |-> None, is_draw |-> FALSE, moves |-> 2]
Drawn == [board |-> <<"X", "O", "X", "X", "O", "O", "O", "X", "X">>,
          next_player |-> "X", winner |-> None, is_draw |-> TRUE, moves |-> 9]
Short == [board |-> <<"X", None, None, None, "O", None, None, None>>,
          next_player |-> "O", winner |-> None, is_draw |-> FALSE, moves |-> 2]
Long == [board |-> <<"X", "X", "X", "O", "O", None, None, None, None, None>>,
         next_player |-> "O", winner |-> "X", is_draw |-> FALSE, moves |-> 5]
Payloads == {Opening, Drawn, Short, Long}

NoPayload == [board |-> <<>>, next_player |-> None, winner |-> None,
              is_draw |-> FALSE, moves |-> 0]

(***************************************************************************)
(* Rows of ttt_games and the records the handlers answer with.             *)
(***************************************************************************)
NoRow == [id |-> 0, board |-> <<>>, next_player |-> None, winner |-> None,
          is_draw |-> 0, moves |-> 0, created_at |-> 0, updated_at |-> 0]
NoOut == [id |-> 0, board |-> <<>>, next_player |-> None, winner |-> None,
          is_draw |-> FALSE, moves |-> 0, created_at |-> 0, updated_at |-> 0]

NoResp == [status |-> 0, detail |-> "", body |-> NoOut]
HTTPException(code, msg) == [status |-> code, detail |-> msg, body |-> NoOut]
Answer(out) == [status |-> 200, detail |-> "", body |-> out]

\* Requests, numbered in their order of arrival; each is served on a worker
\* thread of its own, concurrently with the others.
SaveReqs == 1..NumSaves
FetchReqs == 1..NumFetches

VARIABLES
    table,        \* the committed rows of ttt_games
    seq,          \* sqlite_sequence of ttt_games: the largest id handed out
    writer,       \* the save whose connection holds the write lock, or 0
    clock,        \* the UTC clock, as the number of the last reading
    save,         \* per save request: the handler's locals
    fetch,        \* per fetch request: the handler's locals
    returnedMax,  \* history: the largest id a save has answered with; a request
                  \* notes it in floor on arrival
    cin, cop, cres, cback   \* the codec applied to an input on its own

codecVars == <<cin, cop, cres, cback>>
gameVars == <<table, seq, writer, clock, save, fetch, returnedMax>>
vars == <<table, seq, writer, clock, save, fetch, returnedMax,
          cin, cop, cres, cback>>

IdleSave == [pc |-> "idle", payload |-> NoPayload, now |-> 0, enc |-> <<>>,
             row |-> NoRow, lastrowid |-> 0, floor |-> 0, resp |-> NoResp]
IdleFetch == [pc |-> "idle", floor |-> 0, resp |-> NoResp]

InitCodecIdle ==
    /\ cin = <<>>
    /\ cop = "none"
    /\ cres = ValueError
    /\ cback = ValueError

InitRequests ==
    /\ writer = 0
    /\ clock = 0
    /\ save = [s \in SaveReqs |-> IdleSave]
    /\ fetch = [f \in FetchReqs |-> IdleFetch]
    /\ returnedMax = 0

\* _init_db on a database file that does not exist yet: an empty table.
_init_db ==
    /\ table = {}
    /\ seq = 0

Init == _init_db /\ InitRequests /\ InitCodecIdle

\* 1 if payload.is_draw else 0
BoolToInt(b) == IF b THEN 1 ELSE 0

\* A reading of the column that takes 1 for false.
IntToBoolAbove(n) == n > 1

\* bool(row["is_draw"])
IntToBool(n) == n # 0

\* An id counter that is never advanced: the last id again.
NextIdReuse == seq

\* AUTOINCREMENT: one more than the largest id ever handed out.
NextId == seq + 1

NewRow(id, enc, payload, now) ==
    [id |-> id, board |-> enc, next_player |-> payload.next_player,
     winner |-> payload.winner, is_draw |-> BoolToInt(payload.is_draw),
     moves |-> payload.moves, created_at |-> now, updated_at |-> now]

\* GET /: a fixed answer; the handler reads and writes no state.
HealthAnswer == [message |-> "Healthy"]

health_check ==
    /\ HealthAnswer.message = "Healthy"
    /\ UNCHANGED gameVars
    /\ UNCHANGED codecVars

\* GET /api/debug/db: the path and whether the file exists, which it does
\* once _init_db has run; the handler writes no state.
DiagAnswer == [sqlite_db_path |-> DbPath, exists |-> TRUE]

db_diagnostics ==
    /\ DiagAnswer.sqlite_db_path = DbPath
    /\ UNCHANGED gameVars
    /\ UNCHANGED codecVars

(***************************************************************************)
(* POST /api/games: save_game_state, in the steps other threads can see.   *)
(***************************************************************************)
\* The current time: each reading of the clock is later than the one before.
_utc_now_iso == clock + 1

\* Request r is the next to arrive: the requests before it have arrived.
Arrived(req, r) == IF r = 1 THEN TRUE ELSE req[r - 1].pc # "idle"

\* A length check that lets the longer boards through.
TooShort(board) == Len(board) < BoardLen

\* len(payload.board) != 9
WrongLength(board) == Len(board) # BoardLen

\* The length check, the clock reading, the encoding and the connection. An
\* error of _encode_board is not caught: the framework answers 500.
SaveStart(s, payload) ==
    /\ save[s].pc = "idle"
    /\ Arrived(save, s)
    /\ IF WrongLength(payload.board)
       THEN /\ save' = [save EXCEPT ![s] =
                [IdleSave EXCEPT !.pc = "done",
                     !.resp = HTTPException(400, "board must be a 9-element array")]]
            /\ clock' = clock
       ELSE LET now == _utc_now_iso
                e == _encode_board(payload.board)
            IN IF ~e.ok
               THEN /\ save' = [save EXCEPT ![s] =
                        [IdleSave EXCEPT !.pc = "done",
                             !.resp = HTTPException(500, "Internal Server Error")]]
                    /\ clock' = now
               ELSE /\ save' = [save EXCEPT ![s] =
                        [IdleSave EXCEPT !.pc = "connected", !.payload = payload,
                             !.now = now, !.enc = e.val, !.floor = returnedMax]]
                    /\ clock' = now
    /\ UNCHANGED <<table, seq, writer, fetch, returnedMax>>
    /\ UNCHANGED codecVars

\* cur.execute(INSERT ...): takes the write lock and adds the row to the open
\* transaction; the cursor remembers the id.
SaveInsert(s) ==
    /\ save[s].pc = "connected"
    /\ writer = 0
    /\ writer' = s
    /\ save' = [save EXCEPT ![s].pc = "inserted",
                    ![s].row = NewRow(NextId, save[s].enc, save[s].payload, save[s].now),
                    ![s].lastrowid = NextId]
    /\ UNCHANGED <<table, seq, clock, fetch, returnedMax>>
    /\ UNCHANGED codecVars

\* cur.execute(INSERT ...) while another connection holds the write lock past
\* the busy timeout: sqlite3.OperationalError, answered as a server error.
SaveBusy(s) ==
    /\ save[s].pc = "connected"
    /\ writer # 0
    /\ save' = [save EXCEPT ![s] =
            [IdleSave EXCEPT !.pc = "done",
                 !.resp = HTTPException(500, "database is locked")]]
    /\ UNCHANGED <<table, seq, writer, clock, fetch, returnedMax>>
    /\ UNCHANGED codecVars

\* A write that replaces the newest row instead of adding one.
CommitReplace(s) == {r \in table : r.id # save[s].row.id - 1} \cup {save[s].row}

Commit(s) == table \cup {save[s].row}

\* conn.commit(): the row becomes visible and the lock is released.
SaveCommit(s) ==
    /\ save[s].pc = "inserted"
    /\ writer = s
    /\ table' = Commit(s)
    /\ seq' = save[s].row.id
    /\ writer' = 0
    /\ save' = [save EXCEPT ![s].pc = "committed", ![s].row = NoRow]
    /\ UNCHANGED <<clock, fetch, returnedMax>>
    /\ UNCHANGED codecVars

\* An id read back from the store instead of from the request's own cursor.
SaveIdShared(s) == seq

\* int(cur.lastrowid)
SaveId(s) == save[s].lastrowid

\* The answer, built from the request's own values, and conn.close().
SaveReturn(s) ==
    /\ save[s].pc = "committed"
    /\ LET p == save[s].payload
           out == [id |-> SaveId(s),
                   board |-> _decode_board(save[s].enc).val,
                   next_player |-> p.next_player, winner |-> p.winner,
                   is_draw |-> p.is_draw, moves |-> p.moves,
                   created_at |-> save[s].now, updated_at |-> save[s].now]
       IN /\ save' = [save EXCEPT ![s].pc = "done", ![s].resp = Answer(out),
                           ![s].enc = <<>>, ![s].now = 0, ![s].lastrowid = 0,
                           ![s].floor = 0]
          /\ returnedMax' = IF out.id > returnedMax THEN out.id ELSE returnedMax
    /\ UNCHANGED <<table, seq, writer, clock, fetch>>
    /\ UNCHANGED codecVars

(***************************************************************************)
(* GET /api/games/latest: get_latest_game_state.                           *)
(***************************************************************************)
\* The request arrives and opens its connection.
FetchStart(f) ==
    /\ fetch[f].pc = "idle"
    /\ Arrived(fetch, f)
    /\ fetch' = [fetch EXCEPT ![f].pc = "connected", ![f].floor = returnedMax]
    /\ UNCHANGED <<table, seq, writer, clock, save, returnedMax>>
    /\ UNCHANGED codecVars

MaxIdRow(rows) == CHOOSE r \in rows : \A q \in rows : q.id <= r.id

\* A query that skips the rows it cannot decode.
SelectLatestDecodable(rows) ==
    LET good == {r \in rows : _decode_board(r.board).ok}
    IN IF good = {} THEN <<>> ELSE <<MaxIdRow(good)>>

\* A query that also reads the row of an open write transaction.
SelectLatestDirty(rows) ==
    LET all == rows \cup {save[s].row : s \in {t \in SaveReqs : save[t].pc = "inserted"}}
    IN IF all = {} THEN <<>> ELSE <<MaxIdRow(all)>>

\* A query that skips the newest row.
SelectSecondLatest(rows) ==
    IF rows = {} \/ rows = {MaxIdRow(rows)}
    THEN <<>>
    ELSE <<MaxIdRow(rows \ {MaxIdRow(rows)})>>

\* SELECT * FROM ttt_games ORDER BY id DESC LIMIT 1; fetchone()
SelectLatest(rows) == IF rows = {} THEN <<>> ELSE <<MaxIdRow(rows)>>

RowToOut(row, board) ==
    [id |-> row.id, board |-> board, next_player |-> row.next_player,
     winner |-> row.winner, is_draw |-> IntToBool(row.is_draw),
     moves |-> row.moves, created_at |-> row.created_at,
     updated_at |-> row.updated_at]

FetchAnswer(got) ==
    IF got = <<>>
    THEN HTTPException(404, "No saved game state")
    ELSE LET d == _decode_board(got[1].board)
         IN IF ~d.ok
            THEN HTTPException(500, "Corrupt board data")
            ELSE Answer(RowToOut(got[1], d.val))

\* The query on the committed table and the answer built from its row.
FetchQuery(f) ==
    /\ fetch[f].pc = "connected"
    /\ fetch' = [fetch EXCEPT ![f].pc = "done",
                      ![f].resp = FetchAnswer(SelectLatest(table))]
    /\ UNCHANGED <<table, seq, writer, clock, save, returnedMax>>
    /\ UNCHANGED codecVars

Next ==
    \/ health_check
    \/ db_diagnostics
    \/ \E s \in SaveReqs, payload \in Payloads : SaveStart(s, payload)
    \/ \E s \in SaveReqs : SaveInsert(s)
    \/ \E s \in SaveReqs : SaveBusy(s)
    \/ \E s \in SaveReqs : SaveCommit(s)
    \/ \E s \in SaveReqs : SaveReturn(s)
    \/ \E f \in FetchReqs : FetchStart(f)
    \/ \E f \in FetchReqs : FetchQuery(f)

Spec == Init /\ [][Next]_vars

(***************************************************************************)
(* A database file left by an earlier run, or written to by another        *)
(* program: CREATE TABLE IF NOT EXISTS keeps its rows, whose board column  *)
(* may hold text the codec never wrote.                                    *)
(***************************************************************************)
OldRow == NewRow(1, _encode_board(Opening.board).val, Opening, 0)
BadCharRow == NewRow(2, <<"X", ".", "?", ".", "O", ".", ".", ".", ".">>, Drawn, 0)
BadLenRow == NewRow(1, <<"X", ".", ".", ".", "O", ".", ".", ".">>, Opening, 0)
ExistingTables == {{OldRow, BadCharRow}, {BadLenRow}}

InitExisting ==
    /\ table \in ExistingTables
    /\ seq = MaxIdRow(table).id
    /\ InitRequests
    /\ InitCodecIdle

SpecExisting == InitExisting /\ [][Next]_vars

(***************************************************************************)
(* The codec on its own: one input, encoded or decoded, and the result     *)
(* taken back through the other direction.                                 *)
(***************************************************************************)
ValidBoards == [1..BoardLen -> Cells]
ValidStrings == [1..BoardLen -> Alphabet]

\* The sequences of length n that are blank but for at most k marks.
Sparse(n, blank, marks, k) ==
    LET places == {P \in SUBSET (1..n) : Cardinality(P) <= k}
    IN UNION {{[i \in 1..n |-> IF i \in P THEN m[i] ELSE blank] : m \in [P -> marks]}
                 : P \in places}

\* Boards of every length up to maxLen but 9, and strings of every length up
\* to maxLen, 9 too, that may hold characters no cell is written as.
OddBoards(maxLen, k) ==
    UNION {Sparse(n, None, {"X", "O"}, k) : n \in (0..maxLen) \ {BoardLen}}
OddStrings(maxLen, k) ==
    UNION {Sparse(n, ".", {"X", "O"} \cup BadChars, k) : n \in 0..maxLen}

IsBoard(x) == \A i \in 1..Len(x) : x[i] \in Cells
IsString(x) == \A i \in 1..Len(x) : x[i] \in Alphabet \cup BadChars

InitCodec ==
    /\ cin \in ValidBoards \cup ValidStrings
                \cup OddBoards(MaxLen, MaxMarks) \cup OddStrings(MaxLen, MaxMarks)
    /\ cop = "none"
    /\ cres = ValueError
    /\ cback = ValueError
    /\ _init_db
    /\ InitRequests

Encode ==
    /\ cop = "none"
    /\ IsBoard(cin)
    /\ cres' = _encode_board(cin)
    /\ cop' = "encode"
    /\ UNCHANGED <<cin, cback>>
    /\ UNCHANGED gameVars

Decode ==
    /\ cop = "none"
    /\ IsString(cin)
    /\ cres' = _decode_board(cin)
    /\ cop' = "decode"
    /\ UNCHANGED <<cin, cback>>
    /\ UNCHANGED gameVars

DecodeEncoded ==
    /\ cop = "encode"
    /\ cres.ok
    /\ cback' = _decode_board(cres.val)
    /\ cop' = "encode_decode"
    /\ UNCHANGED <<cin, cres>>
    /\ UNCHANGED gameVars

EncodeDecoded ==
    /\ cop = "decode"
    /\ cres.ok
    /\ cback' = _encode_board(cres.val)
    /\ cop' = "decode_encode"
    /\ UNCHANGED <<cin, cres>>
    /\ UNCHANGED gameVars

NextCodec == Encode \/ Decode \/ DecodeEncoded \/ EncodeDecoded

SpecCodec == InitCodec /\ [][NextCodec]_vars

(***************************************************************************)
(* Properties.                                                             *)
(***************************************************************************)
Answered(s) == save[s].pc = "done" /\ save[s].resp.status = 200

\* C1: the codec is a mutual inverse on well-formed inputs: every board of 9
\* cells in {X, O, null} encodes, and decoding the result gives the board
\* back; every 9-character string over {., X, O} decodes, and encoding the
\* result gives the string back.
C1_RoundTrip ==
    /\ (cop = "encode" /\ cin \in ValidBoards) => cres.ok
    /\ (cop = "decode" /\ cin \in ValidStrings) => cres.ok
    /\ (cop = "encode_decode" /\ cin \in ValidBoards) => cback = Ok(cin)
    /\ (cop = "decode_encode" /\ cin \in ValidStrings) => cback = Ok(cin)

C1_Witness ==
    /\ cop = "encode_decode"
    /\ cin = Drawn.board
    /\ cres = Ok(<<"X", "O", "X", "X", "O", "O", "O", "X", "X">>)
    /\ cback = Ok(cin)

\* C5: _encode_board fails on every input whose length is not 9, and
\* _decode_board fails on every string whose length is not 9 and on every
\* 9-character string with a character outside {., X, O}; a failure returns
\* no board and no string.
C5_Rejection ==
    /\ (cop = "encode" /\ Len(cin) # BoardLen) => cres = ValueError
    /\ (cop = "decode" /\ Len(cin) # BoardLen) => cres = ValueError
    /\ (cop = "decode" /\ \E i \in 1..Len(cin) : cin[i] \notin Alphabet)
          => cres = ValueError

C5_Witness ==
    /\ cop = "decode"
    /\ Len(cin) = BoardLen
    /\ \E i \in 1..Len(cin) : cin[i] \in BadChars
    /\ cres = ValueError

\* C2: a fetch that arrives after a save has answered, with no other save
\* committed since that save's, answers with the save's id, which is positive,
\* with the board, next_player, winner, is_draw and moves of the save's
\* payload, and with created_at equal to updated_at.
C2_SaveThenFetch ==
    [][\A f \in FetchReqs, s \in SaveReqs :
          (/\ FetchQuery(f)
           /\ Answered(s)
           /\ fetch[f].floor = save[s].resp.body.id
           /\ seq = save[s].resp.body.id)
          => LET r == fetch'[f].resp
                 p == save[s].payload
             IN /\ r.status = 200
                /\ r.body.id = save[s].resp.body.id
                /\ r.body.id > 0
                /\ r.body.board = p.board
                /\ r.body.next_player = p.next_player
                /\ r.body.winner = p.winner
                /\ r.body.is_draw = p.is_draw
                /\ r.body.moves = p.moves
                /\ r.body.created_at = r.body.updated_at]_vars

C2_Witness ==
    \E f \in FetchReqs, s \in SaveReqs :
        /\ Answered(s)
        /\ save[s].payload = Drawn
        /\ fetch[f].pc = "done"
        /\ fetch[f].floor = save[s].resp.body.id
        /\ fetch[f].resp = save[s].resp

\* C3: a save that arrives after another has answered is given a larger id;
\* no two saves are answered with the same id and no two rows share one; a
\* fetch that arrives after a save has answered, with no other save committed
\* since, answers with that save's id.
C3_MonotonicIds ==
    /\ [][/\ \A s \in SaveReqs :
               SaveReturn(s) => save'[s].resp.body.id > save[s].floor
          /\ \A s \in SaveReqs :
               SaveInsert(s) => \A r \in table : save'[s].row.id > r.id
          /\ \A f \in FetchReqs, s \in SaveReqs :
               (/\ FetchQuery(f)
                /\ Answered(s)
                /\ fetch[f].floor = save[s].resp.body.id
                /\ seq = save[s].resp.body.id)
               => fetch'[f].resp.body.id = save[s].resp.body.id]_vars
    /\ [](/\ \A s, t \in SaveReqs :
               (Answered(s) /\ Answered(t) /\ s # t)
               => save[s].resp.body.id # save[t].resp.body.id
          /\ \A r, q \in table : r.id = q.id => r = q)

C3_Witness ==
    /\ \E s \in SaveReqs :
          save[s].pc = "committed" /\ save[s].floor = 1 /\ save[s].lastrowid = 2
    /\ \E f \in FetchReqs :
          fetch[f].pc = "done" /\ fetch[f].floor = 1 /\ fetch[f].resp.body.id = 1

\* C4: a save whose board does not have exactly 9 elements is answered with
\* status 400 and leaves the table as it was.
C4_BadLengthRejected ==
    [][\A s \in SaveReqs, p \in Payloads :
          (SaveStart(s, p) /\ Len(p.board) # BoardLen)
          => /\ save'[s].pc = "done"
             /\ save'[s].resp = HTTPException(400, "board must be a 9-element array")
             /\ table' = table
             /\ seq' = seq
             /\ writer' = writer]_vars

C4_Witness ==
    \E s \in SaveReqs :
        /\ save[s].pc = "done"
        /\ save[s].resp.status = 400
        /\ table # {}

\* C6: when the row with the largest id holds a board that _decode_board
\* rejects, a fetch is answered with status 500 and no record: not with 404,
\* and not with an older row that decodes.
C6_CorruptData ==
    [][\A f \in FetchReqs :
          (/\ FetchQuery(f)
           /\ table # {}
           /\ ~_decode_board(MaxIdRow(table).board).ok)
          => fetch'[f].resp = HTTPException(500, "Corrupt board data")]_vars

C6_Witness ==
    \E f \in FetchReqs :
        /\ fetch[f].pc = "done"
        /\ fetch[f].resp.status = 500
        /\ OldRow \in table

\* C7: a fetch is answered with status 404 exactly when the table holds no
\* row at its query: always before any save has committed, and never once a
\* save has.
C7_NotFoundIffEmpty ==
    [][\A f \in FetchReqs :
          FetchQuery(f)
          => /\ fetch'[f].resp.status = 404 <=> table = {}
             /\ (\A s \in SaveReqs : ~(save[s].pc = "committed" \/ Answered(s)))
                   => fetch'[f].resp.status = 404
             /\ (\E s \in SaveReqs : save[s].pc = "committed" \/ Answered(s))
                   => fetch'[f].resp.status # 404]_vars

C7_Witness ==
    /\ \E f \in FetchReqs : fetch[f].pc = "done" /\ fetch[f].resp.status = 404
    /\ table # {}

\* C8: the table is append-only: every row stays as it is, a step that
\* changes the table is the commit of a save and adds exactly one row under a
\* new id, and health check, fetch and diagnostics leave the table unchanged.
C8_AppendOnly ==
    [][/\ table \subseteq table'
       /\ \A r \in table' \ table : \A q \in table : q.id # r.id
       /\ table' # table
             => /\ \E s \in SaveReqs : SaveCommit(s)
                /\ Cardinality(table' \ table) = 1
       /\ (\/ health_check
           \/ db_diagnostics
           \/ \E f \in FetchReqs : FetchStart(f) \/ FetchQuery(f))
             => table' = table]_vars

C8_Witness ==
    /\ Cardinality(table) = 2
    /\ \E f \in FetchReqs : fetch[f].pc = "done" /\ fetch[f].resp.body.id = 1

\* The row of ttt_games a record of a save's answer stands for.
RowOf(out) ==
    [id |-> out.id, board |-> _encode_board(out.board).val,
     next_player |-> out.next_player, winner |-> out.winner,
     is_draw |-> BoolToInt(out.is_draw), moves |-> out.moves,
     created_at |-> out.created_at, updated_at |-> out.updated_at]

\* C9: under every interleaving of saves, each answered save carries the id
\* of a stored row that holds exactly the answer's board, next_player, winner,
\* is_draw, moves and timestamps, which are those of the save's own payload,
\* and no two saves are answered with the same id.
C9_ResponseMirrorsWrite ==
    \A s \in SaveReqs :
        Answered(s)
        => LET out == save[s].resp.body
               p == save[s].payload
           IN /\ RowOf(out) \in table
              /\ \A r \in table : r.id = out.id => r = RowOf(out)
              /\ out.board = p.board
              /\ out.next_player = p.next_player
              /\ out.winner = p.winner
              /\ out.is_draw = p.is_draw
              /\ out.moves = p.moves
              /\ out.created_at = out.updated_at
              /\ \A t \in SaveReqs \ {s} :
                    Answered(t) => save[t].resp.body.id # out.id

C9_Witness ==
    /\ Answered(1) /\ save[1].resp.body.id = 2 /\ save[1].payload = Opening
    /\ Answered(2) /\ save[2].resp.body.id = 1 /\ save[2].payload = Drawn

\* C10: a fetch that arrives after a save has answered is answered with a
\* record whose id is at least that save's; and every record a fetch answers
\* with is a committed row, whole, also while a save is in flight.
C10_ReadAfterWrite ==
    [][\A f \in FetchReqs :
          FetchQuery(f)
          => LET r == fetch'[f].resp
             IN /\ fetch[f].floor > 0
                      => r.status = 200 /\ r.body.id >= fetch[f].floor
                /\ r.status = 200
                      => \E row \in table :
                            /\ _decode_board(row.board).ok
                            /\ r.body = RowToOut(row, _decode_board(row.board).val)
                            /\ \A q \in table : q.id <= row.id]_vars

C10_Witness ==
    \E f \in FetchReqs, s \in SaveReqs :
        /\ save[s].pc = "inserted"
        /\ save[s].lastrowid = 2
        /\ fetch[f].pc = "done"
        /\ fetch[f].floor = 1
        /\ fetch[f].resp.body.id = 1

=============================================================================
